---- MODULE Spec2Model ----
(***************************************************************************)
(* Model of src/main.py: greet(name) and main(), the interactive script    *)
(* that reads a name, prints a greeting, reads a number and prints its     *)
(* square.                                                                 *)
(*                                                                         *)
(* A Python str is a sequence of characters, a character a string: itself  *)
(* when it is printable ASCII or has an escape, "U+" and its code point    *)
(* in hexadecimal otherwise ("U+0663", ARABIC-INDIC DIGIT THREE).          *)
(* Standard output is the sequence of writes made to it, each write a str; *)
(* Stream(stdout) is the character stream a reader of the pipe sees.  The  *)
(* counters name_reads, number_reads, consumed and parses record what the  *)
(* run has done; no statement reads them.                                  *)
(*                                                                         *)
(* input(prompt) is two steps: it writes the prompt and flushes, then      *)
(* waits for standard input until a line or end of input comes.  Between   *)
(* the two the process is at "L17_read" or "L22_read", the prompt written  *)
(* and the read pending.                                                   *)
(***************************************************************************)
EXTENDS Integers, Sequences, FiniteSets

VARIABLES
    pc,               \* the statement of main() about to run, the read
                      \* main() waits in, or "exit"
    user_name,        \* local of main(), bound by line 17
    greeting,         \* local of main(), bound by line 18
    text,             \* the str returned by input() on line 22, argument of int()
    number,           \* local of main(), bound by line 22
    result,           \* local of main(), bound by line 23
    stdout,           \* the writes made to sys.stdout, in order
    exc,              \* the exception that left main() uncaught, or "none"
    prompt_on_stdout, \* environment: whether input() writes its prompt to sys.stdout
    name_reads,       \* how many times input() of line 17 was called
    number_reads,     \* how many times input() of line 22 was called
    consumed,         \* how many lines were taken from standard input
    parses            \* how many times int() was called

vars == <<pc, user_name, greeting, text, number, result, stdout, exc,
          prompt_on_stdout, name_reads, number_reads, consumed, parses>>

----------------------------------------------------------------------------
(* Bounds of the inputs. *)

MaxNameLen == 2

MaxNumLen == 3

\* Characters a name is drawn from.
NameAlphabet == {"A", "d", " "}

\* Characters the second line is drawn from: a letter, the two signs, two
\* digits, a blank and the digit separator.
NumAlphabet == {"a", "-", "+", "0", "3", " ", "_"}

StrUpTo(A, n) == UNION {[1..k -> A] : k \in 0..n}

NameLines == StrUpTo(NameAlphabet, MaxNameLen)

\* n times the character c.
Rep(c, n) == [i \in 1..n |-> c]

\* Second lines beside the short ones: whitespace and digits that are not
\* ASCII, and numerals at the limit of the conversion between int and str.
SpecialLines ==
    { <<"U+000B", "3">>,
      <<"3", "U+00A0">>,
      <<"-", "U+0663">>,
      <<"1">> \o Rep("0", 2150),
      <<"4">> \o Rep("0", 2149),
      Rep("0", 4300),
      Rep("0", 4301) }

NumberLines == StrUpTo(NumAlphabet, MaxNumLen) \cup SpecialLines

----------------------------------------------------------------------------
(* String constants of the source. *)

NL == "\n"

HelloPrefix == <<"H","e","l","l","o",","," ">>

WelcomeSuffix ==
    <<"!"," ","W","e","l","c","o","m","e"," ","t","o"," ","t","h","e"," ",
      "i","m","p","r","o","v","e","d"," ","c","o","d","e",".">>

NamePrompt ==
    <<"P","l","e","a","s","e"," ","e","n","t","e","r"," ","y","o","u","r"," ",
      "n","a","m","e",":"," ">>

NumberPrompt ==
    <<"E","n","t","e","r"," ","a"," ","n","u","m","b","e","r"," ","t","o"," ",
      "s","q","u","a","r","e",":"," ">>

SquarePrefix == <<"T","h","e"," ","s","q","u","a","r","e"," ","o","f"," ">>

SquareInfix == <<" ","i","s"," ">>

----------------------------------------------------------------------------
(* A Python int has arbitrary precision.  It is modelled by its sign and    *)
(* its magnitude, the magnitude a sequence of limbs in base LimbBase, least *)
(* significant first, with no zero limb on top; zero has the empty          *)
(* magnitude.                                                               *)

LimbDigits == 3

LimbBase == 10 ^ LimbDigits

\* sys.get_int_max_str_digits(): the interpreter's default limit on the
\* number of digits int(str) and str(int) convert.
MaxStrDigits == 4300

Zero == [neg |-> FALSE, mag |-> <<>>]

\* F(v), with v evaluated once, however often F uses it.
With(v, F(_)) == CHOOSE r \in {F(x) : x \in {v}} : TRUE

\* The greatest index in lo..hi of a non-zero limb of l, 0 when there is none.
RECURSIVE TopNonZero(_, _, _)
TopNonZero(l, lo, hi) ==
    IF lo > hi THEN 0
    ELSE IF lo = hi THEN (IF l[lo] # 0 THEN lo ELSE 0)
    ELSE With((lo + hi) \div 2, LAMBDA mid :
             With(TopNonZero(l, mid + 1, hi),
                  LAMBDA r : IF r # 0 THEN r ELSE TopNonZero(l, lo, mid)))

Trim(limbs) ==
    With(limbs, LAMBDA l : SubSeq(l, 1, TopNonZero(l, 1, Len(l))))

----------------------------------------------------------------------------
(* str(int), as an f-string field shows it: the decimal numeral; ValueError *)
(* when it has more than MaxStrDigits digits.                               *)

DigitChars == <<"0","1","2","3","4","5","6","7","8","9">>

\* The numeral of a natural number below LimbBase.
RECURSIVE SmallToStr(_)
SmallToStr(n) ==
    IF n < 10 THEN <<DigitChars[n + 1]>>
    ELSE SmallToStr(n \div 10) \o <<DigitChars[(n % 10) + 1]>>

\* Digit t (1 the most significant) of limb v written with LimbDigits digits.
LimbDigit(v, t) == DigitChars[((v \div (10 ^ (LimbDigits - t))) % 10) + 1]

\* How many digits the numeral of a magnitude has.
NumDigits(mag) ==
    IF mag = <<>> THEN 1
    ELSE LimbDigits * (Len(mag) - 1) + Len(SmallToStr(mag[Len(mag)]))

NatToStr(mag) ==
    IF mag = <<>> THEN <<"0">>
    ELSE SmallToStr(mag[Len(mag)]) \o
         [i \in 1..(LimbDigits * (Len(mag) - 1)) |->
            LimbDigit(mag[Len(mag) - 1 - ((i - 1) \div LimbDigits)],
                      ((i - 1) % LimbDigits) + 1)]

\* Whether str(n) returns (TRUE) or raises ValueError (FALSE).
StrOk(n) == NumDigits(n.mag) <= MaxStrDigits

\* The str that str(n) returns when StrOk(n).
IntToStr(n) == IF n.neg THEN <<"-">> \o NatToStr(n.mag) ELSE NatToStr(n.mag)

----------------------------------------------------------------------------
(* int(str), base 10: surrounding whitespace is dropped, one sign is        *)
(* allowed, then decimal digits (of any script), single underscores only    *)
(* between digits; ValueError otherwise, and when there are more than       *)
(* MaxStrDigits digits.                                                     *)

Whitespace ==
    {"\t", "\n", "U+000B", "\f", "\r", " ", "U+0085", "U+00A0", "U+1680",
     "U+2000", "U+2001", "U+2002", "U+2003", "U+2004", "U+2005", "U+2006",
     "U+2007", "U+2008", "U+2009", "U+200A", "U+2028", "U+2029", "U+202F",
     "U+205F", "U+3000"}

\* DigitsOfValue[d + 1]: the characters that are the decimal digit d.
DigitsOfValue ==
    <<
      {"0", "U+0660", "U+06F0", "U+07C0", "U+0966", "U+09E6", "U+0A66",
       "U+0AE6", "U+0B66", "U+0BE6", "U+0C66", "U+0CE6", "U+0D66",
       "U+0DE6", "U+0E50", "U+0ED0", "U+0F20", "U+1040", "U+1090",
       "U+17E0", "U+1810", "U+1946", "U+19D0", "U+1A80", "U+1A90",
       "U+1B50", "U+1BB0", "U+1C40", "U+1C50", "U+A620", "U+A8D0",
       "U+A900", "U+A9D0", "U+A9F0", "U+AA50", "U+ABF0", "U+FF10",
       "U+104A0", "U+10D30", "U+11066", "U+110F0", "U+11136",
       "U+111D0", "U+112F0", "U+11450", "U+114D0", "U+11650",
       "U+116C0", "U+11730", "U+118E0", "U+11950", "U+11C50",
       "U+11D50", "U+11DA0", "U+16A60", "U+16AC0", "U+16B50",
       "U+1D7CE", "U+1D7D8", "U+1D7E2", "U+1D7EC", "U+1D7F6",
       "U+1E140", "U+1E2F0", "U+1E950", "U+1FBF0"},
      {"1", "U+0661", "U+06F1", "U+07C1", "U+0967", "U+09E7", "U+0A67",
       "U+0AE7", "U+0B67", "U+0BE7", "U+0C67", "U+0CE7", "U+0D67",
       "U+0DE7", "U+0E51", "U+0ED1", "U+0F21", "U+1041", "U+1091",
       "U+17E1", "U+1811", "U+1947", "U+19D1", "U+1A81", "U+1A91",
       "U+1B51", "U+1BB1", "U+1C41", "U+1C51", "U+A621", "U+A8D1",
       "U+A901", "U+A9D1", "U+A9F1", "U+AA51", "U+ABF1", "U+FF11",
       "U+104A1", "U+10D31", "U+11067", "U+110F1", "U+11137",
       "U+111D1", "U+112F1", "U+11451", "U+114D1", "U+11651",
       "U+116C1", "U+11731", "U+118E1", "U+11951", "U+11C51",
       "U+11D51", "U+11DA1", "U+16A61", "U+16AC1", "U+16B51",
       "U+1D7CF", "U+1D7D9", "U+1D7E3", "U+1D7ED", "U+1D7F7",
       "U+1E141", "U+1E2F1", "U+1E951", "U+1FBF1"},
      {"2", "U+0662", "U+06F2", "U+07C2", "U+0968", "U+09E8", "U+0A68",
       "U+0AE8", "U+0B68", "U+0BE8", "U+0C68", "U+0CE8", "U+0D68",
       "U+0DE8", "U+0E52", "U+0ED2", "U+0F22", "U+1042", "U+1092",
       "U+17E2", "U+1812", "U+1948", "U+19D2", "U+1A82", "U+1A92",
       "U+1B52", "U+1BB2", "U+1C42", "U+1C52", "U+A622", "U+A8D2",
       "U+A902", "U+A9D2", "U+A9F2", "U+AA52", "U+ABF2", "U+FF12",
       "U+104A2", "U+10D32", "U+11068", "U+110F2", "U+11138",
       "U+111D2", "U+112F2", "U+11452", "U+114D2", "U+11652",
       "U+116C2", "U+11732", "U+118E2", "U+11952", "U+11C52",
       "U+11D52", "U+11DA2", "U+16A62", "U+16AC2", "U+16B52",
       "U+1D7D0", "U+1D7DA", "U+1D7E4", "U+1D7EE", "U+1D7F8",
       "U+1E142", "U+1E2F2", "U+1E952", "U+1FBF2"},
      {"3", "U+0663", "U+06F3", "U+07C3", "U+0969", "U+09E9", "U+0A69",
       "U+0AE9", "U+0B69", "U+0BE9", "U+0C69", "U+0CE9", "U+0D69",
       "U+0DE9", "U+0E53", "U+0ED3", "U+0F23", "U+1043", "U+1093",
       "U+17E3", "U+1813", "U+1949", "U+19D3", "U+1A83", "U+1A93",
       "U+1B53", "U+1BB3", "U+1C43", "U+1C53", "U+A623", "U+A8D3",
       "U+A903", "U+A9D3", "U+A9F3", "U+AA53", "U+ABF3", "U+FF13",
       "U+104A3", "U+10D33", "U+11069", "U+110F3", "U+11139",
       "U+111D3", "U+112F3", "U+11453", "U+114D3", "U+11653",
       "U+116C3", "U+11733", "U+118E3", "U+11953", "U+11C53",
       "U+11D53", "U+11DA3", "U+16A63", "U+16AC3", "U+16B53",
       "U+1D7D1", "U+1D7DB", "U+1D7E5", "U+1D7EF", "U+1D7F9",
       "U+1E143", "U+1E2F3", "U+1E953", "U+1FBF3"},
      {"4", "U+0664", "U+06F4", "U+07C4", "U+096A", "U+09EA", "U+0A6A",
       "U+0AEA", "U+0B6A", "U+0BEA", "U+0C6A", "U+0CEA", "U+0D6A",
       "U+0DEA", "U+0E54", "U+0ED4", "U+0F24", "U+1044", "U+1094",
       "U+17E4", "U+1814", "U+194A", "U+19D4", "U+1A84", "U+1A94",
       "U+1B54", "U+1BB4", "U+1C44", "U+1C54", "U+A624", "U+A8D4",
       "U+A904", "U+A9D4", "U+A9F4", "U+AA54", "U+ABF4", "U+FF14",
       "U+104A4", "U+10D34", "U+1106A", "U+110F4", "U+1113A",
       "U+111D4", "U+112F4", "U+11454", "U+114D4", "U+11654",
       "U+116C4", "U+11734", "U+118E4", "U+11954", "U+11C54",
       "U+11D54", "U+11DA4", "U+16A64", "U+16AC4", "U+16B54",
       "U+1D7D2", "U+1D7DC", "U+1D7E6", "U+1D7F0", "U+1D7FA",
       "U+1E144", "U+1E2F4", "U+1E954", "U+1FBF4"},
      {"5", "U+0665", "U+06F5", "U+07C5", "U+096B", "U+09EB", "U+0A6B",
       "U+0AEB", "U+0B6B", "U+0BEB", "U+0C6B", "U+0CEB", "U+0D6B",
       "U+0DEB", "U+0E55", "U+0ED5", "U+0F25", "U+1045", "U+1095",
       "U+17E5", "U+1815", "U+194B", "U+19D5", "U+1A85", "U+1A95",
       "U+1B55", "U+1BB5", "U+1C45", "U+1C55", "U+A625", "U+A8D5",
       "U+A905", "U+A9D5", "U+A9F5", "U+AA55", "U+ABF5", "U+FF15",
       "U+104A5", "U+10D35", "U+1106B", "U+110F5", "U+1113B",
       "U+111D5", "U+112F5", "U+11455", "U+114D5", "U+11655",
       "U+116C5", "U+11735", "U+118E5", "U+11955", "U+11C55",
       "U+11D55", "U+11DA5", "U+16A65", "U+16AC5", "U+16B55",
       "U+1D7D3", "U+1D7DD", "U+1D7E7", "U+1D7F1", "U+1D7FB",
       "U+1E145", "U+1E2F5", "U+1E955", "U+1FBF5"},
      {"6", "U+0666", "U+06F6", "U+07C6", "U+096C", "U+09EC", "U+0A6C",
       "U+0AEC", "U+0B6C", "U+0BEC", "U+0C6C", "U+0CEC", "U+0D6C",
       "U+0DEC", "U+0E56", "U+0ED6", "U+0F26", "U+1046", "U+1096",
       "U+17E6", "U+1816", "U+194C", "U+19D6", "U+1A86", "U+1A96",
       "U+1B56", "U+1BB6", "U+1C46", "U+1C56", "U+A626", "U+A8D6",
       "U+A906", "U+A9D6", "U+A9F6", "U+AA56", "U+ABF6", "U+FF16",
       "U+104A6", "U+10D36", "U+1106C", "U+110F6", "U+1113C",
       "U+111D6", "U+112F6", "U+11456", "U+114D6", "U+11656",
       "U+116C6", "U+11736", "U+118E6", "U+11956", "U+11C56",
       "U+11D56", "U+11DA6", "U+16A66", "U+16AC6", "U+16B56",
       "U+1D7D4", "U+1D7DE", "U+1D7E8", "U+1D7F2", "U+1D7FC",
       "U+1E146", "U+1E2F6", "U+1E956", "U+1FBF6"},
      {"7", "U+0667", "U+06F7", "U+07C7", "U+096D", "U+09ED", "U+0A6D",
       "U+0AED", "U+0B6D", "U+0BED", "U+0C6D", "U+0CED", "U+0D6D",
       "U+0DED", "U+0E57", "U+0ED7", "U+0F27", "U+1047", "U+1097",
       "U+17E7", "U+1817", "U+194D", "U+19D7", "U+1A87", "U+1A97",
       "U+1B57", "U+1BB7", "U+1C47", "U+1C57", "U+A627", "U+A8D7",
       "U+A907", "U+A9D7", "U+A9F7", "U+AA57", "U+ABF7", "U+FF17",
       "U+104A7", "U+10D37", "U+1106D", "U+110F7", "U+1113D",
       "U+111D7", "U+112F7", "U+11457", "U+114D7", "U+11657",
       "U+116C7", "U+11737", "U+118E7", "U+11957", "U+11C57",
       "U+11D57", "U+11DA7", "U+16A67", "U+16AC7", "U+16B57",
       "U+1D7D5", "U+1D7DF", "U+1D7E9", "U+1D7F3", "U+1D7FD",
       "U+1E147", "U+1E2F7", "U+1E957", "U+1FBF7"},
      {"8", "U+0668", "U+06F8", "U+07C8", "U+096E", "U+09EE", "U+0A6E",
       "U+0AEE", "U+0B6E", "U+0BEE", "U+0C6E", "U+0CEE", "U+0D6E",
       "U+0DEE", "U+0E58", "U+0ED8", "U+0F28", "U+1048", "U+1098",
       "U+17E8", "U+1818", "U+194E", "U+19D8", "U+1A88", "U+1A98",
       "U+1B58", "U+1BB8", "U+1C48", "U+1C58", "U+A628", "U+A8D8",
       "U+A908", "U+A9D8", "U+A9F8", "U+AA58", "U+ABF8", "U+FF18",
       "U+104A8", "U+10D38", "U+1106E", "U+110F8", "U+1113E",
       "U+111D8", "U+112F8", "U+11458", "U+114D8", "U+11658",
       "U+116C8", "U+11738", "U+118E8", "U+11958", "U+11C58",
       "U+11D58", "U+11DA8", "U+16A68", "U+16AC8", "U+16B58",
       "U+1D7D6", "U+1D7E0", "U+1D7EA", "U+1D7F4", "U+1D7FE",
       "U+1E148", "U+1E2F8", "U+1E958", "U+1FBF8"},
      {"9", "U+0669", "U+06F9", "U+07C9", "U+096F", "U+09EF", "U+0A6F",
       "U+0AEF", "U+0B6F", "U+0BEF", "U+0C6F", "U+0CEF", "U+0D6F",
       "U+0DEF", "U+0E59", "U+0ED9", "U+0F29", "U+1049", "U+1099",
       "U+17E9", "U+1819", "U+194F", "U+19D9", "U+1A89", "U+1A99",
       "U+1B59", "U+1BB9", "U+1C49", "U+1C59", "U+A629", "U+A8D9",
       "U+A909", "U+A9D9", "U+A9F9", "U+AA59", "U+ABF9", "U+FF19",
       "U+104A9", "U+10D39", "U+1106F", "U+110F9", "U+1113F",
       "U+111D9", "U+112F9", "U+11459", "U+114D9", "U+11659",
       "U+116C9", "U+11739", "U+118E9", "U+11959", "U+11C59",
       "U+11D59", "U+11DA9", "U+16A69", "U+16AC9", "U+16B59",
       "U+1D7D7", "U+1D7E1", "U+1D7EB", "U+1D7F5", "U+1D7FF",
       "U+1E149", "U+1E2F9", "U+1E959", "U+1FBF9"}
    >>

Digits == UNION {DigitsOfValue[d + 1] : d \in 0..9}

DigitValue(c) == CHOOSE d \in 0..9 : c \in DigitsOfValue[d + 1]

\* The least, and the greatest, index in lo..hi of a character of s that is
\* no whitespace; 0 when there is none.
RECURSIVE FirstNonSpace(_, _, _)
FirstNonSpace(s, lo, hi) ==
    IF lo > hi THEN 0
    ELSE IF lo = hi THEN (IF s[lo] \notin Whitespace THEN lo ELSE 0)
    ELSE With((lo + hi) \div 2, LAMBDA mid :
             With(FirstNonSpace(s, lo, mid),
                  LAMBDA l : IF l # 0 THEN l ELSE FirstNonSpace(s, mid + 1, hi)))

RECURSIVE LastNonSpace(_, _, _)
LastNonSpace(s, lo, hi) ==
    IF lo > hi THEN 0
    ELSE IF lo = hi THEN (IF s[lo] \notin Whitespace THEN lo ELSE 0)
    ELSE With((lo + hi) \div 2, LAMBDA mid :
             With(LastNonSpace(s, mid + 1, hi),
                  LAMBDA r : IF r # 0 THEN r ELSE LastNonSpace(s, lo, mid)))

LStrip(str) ==
    With(str, LAMBDA s :
        With(FirstNonSpace(s, 1, Len(s)),
             LAMBDA f : IF f = 0 THEN <<>> ELSE SubSeq(s, f, Len(s))))

RStrip(str) ==
    With(str, LAMBDA s : SubSeq(s, 1, LastNonSpace(s, 1, Len(s))))

Strip(s) == RStrip(LStrip(s))

HasSign(s) == s # <<>> /\ Head(s) \in {"+", "-"}

Unsigned(str) == With(str, LAMBDA s : IF HasSign(s) THEN Tail(s) ELSE s)

\* The digits part: non-empty, digits and underscores, every underscore
\* between two digits.
DigitsOk(str) ==
    With(str, LAMBDA u :
        /\ u # <<>>
        /\ ~ \E i \in 1..Len(u) :
               /\ u[i] \notin Digits
               /\ ~ /\ u[i] = "_"
                    /\ i > 1 /\ i < Len(u)
                    /\ u[i - 1] \in Digits /\ u[i + 1] \in Digits)

IsDigit(c) == c \in Digits

\* The digits of a valid digits part, the underscores left out.
DigitsOf(u) == SelectSeq(u, IsDigit)

\* The value of the digits d[lo..hi], at most LimbDigits of them.
RECURSIVE ChunkValue(_, _, _)
ChunkValue(d, lo, hi) ==
    IF lo > hi THEN 0
    ELSE 10 * ChunkValue(d, lo, hi - 1) + DigitValue(d[hi])

\* The magnitude a sequence of digits denotes.
DigitsValue(digits) ==
    With(digits, LAMBDA d :
        LET m == Len(d)
            k == (m + LimbDigits - 1) \div LimbDigits
            Low(j) == IF m - LimbDigits * j + 1 < 1 THEN 1
                      ELSE m - LimbDigits * j + 1
        IN  Trim([j \in 1..k |->
                    ChunkValue(d, Low(j), m - LimbDigits * (j - 1))]))

\* Whether int(s) returns (TRUE) or raises ValueError (FALSE).
IntValid(s) ==
    With(Unsigned(Strip(s)),
         LAMBDA u : DigitsOk(u) /\ Len(DigitsOf(u)) <= MaxStrDigits)

\* The value int(s) returns when IntValid(s).
IntValue(s) ==
    With(Strip(s), LAMBDA t :
        With(DigitsValue(DigitsOf(Unsigned(t))),
             LAMBDA v : [neg |-> Head(t) = "-" /\ v # <<>>, mag |-> v]))

----------------------------------------------------------------------------
(* int * int. *)

\* The indices of the non-zero limbs of a, in order.
NonZeroLimbs(a) == SelectSeq([i \in 1..Len(a) |-> i], LAMBDA i : a[i] # 0)

\* The sum of a[i] * b[k + 1 - i] over the indices i = nz[lo], ..., nz[hi].
RECURSIVE SumProducts(_, _, _, _, _, _)
SumProducts(a, b, nz, k, lo, hi) ==
    IF lo > hi THEN 0
    ELSE IF lo = hi
         THEN LET i == nz[lo]
                  j == k + 1 - i
              IN  IF j >= 1 /\ j <= Len(b) THEN a[i] * b[j] ELSE 0
    ELSE With((lo + hi) \div 2, LAMBDA mid :
             SumProducts(a, b, nz, k, lo, mid)
             + SumProducts(a, b, nz, k, mid + 1, hi))

\* Carries c into the columns cols[lo..hi]: <<the limbs, the carry out>>.
RECURSIVE Propagate(_, _, _, _)
Propagate(cols, lo, hi, c) ==
    IF lo > hi THEN <<<<>>, c>>
    ELSE IF lo = hi
         THEN LET t == cols[lo] + c
              IN  <<<<t % LimbBase>>, t \div LimbBase>>
    ELSE With((lo + hi) \div 2, LAMBDA mid :
             With(Propagate(cols, lo, mid, c), LAMBDA low :
                 With(Propagate(cols, mid + 1, hi, low[2]), LAMBDA high :
                     <<low[1] \o high[1], high[2]>>)))

MulMag(a, b) ==
    IF a = <<>> \/ b = <<>> THEN <<>>
    ELSE With(NonZeroLimbs(a), LAMBDA nz :
             LET n == Len(a) + Len(b)
                 cols == [k \in 1..n |->
                            SumProducts(a, b, nz, k, 1, Len(nz))]
             IN  Trim(Propagate(cols, 1, n, 0)[1]))

Mul(x, y) ==
    With(MulMag(x.mag, y.mag),
         LAMBDA m : [neg |-> x.neg # y.neg /\ m # <<>>, mag |-> m])

----------------------------------------------------------------------------
(* greet(name), line 11. *)

greet_stripped(name) == HelloPrefix \o Strip(name) \o WelcomeSuffix

greet(name) == HelloPrefix \o name \o WelcomeSuffix

(* number ** 2, line 23. *)

Square(n) == Mul(n, n)

(* The f-string of line 24: it raises ValueError when str() of a field     *)
(* does, and is the message otherwise.                                      *)

SquareMessageOk(n, r) == StrOk(n) /\ StrOk(r)

SquareMessage(n, r) == SquarePrefix \o IntToStr(n) \o SquareInfix \o IntToStr(r)

(* print(s): s and a newline go to sys.stdout. *)

print_raw(out, s) == Append(out, s)

print(out, s) == Append(out, s \o <<NL>>)

(* input(prompt) writes the prompt, then reads; where the prompt goes       *)
(* depends on the environment (sys.stdout when standard input is no         *)
(* terminal).                                                               *)

WritePrompt(out, p) == IF prompt_on_stdout THEN Append(out, p) ELSE out

(* The process exit status once main() has returned or raised. *)

ExitStatus == IF exc = "none" THEN 0 ELSE 1

----------------------------------------------------------------------------

Init ==
    /\ pc = "L17"
    /\ user_name = <<>>
    /\ greeting = <<>>
    /\ text = <<>>
    /\ number = Zero
    /\ result = Zero
    /\ stdout = <<>>
    /\ exc = "none"
    /\ prompt_on_stdout \in BOOLEAN
    /\ name_reads = 0
    /\ number_reads = 0
    /\ consumed = 0
    /\ parses = 0

\* Line 17, input() is called: it writes the prompt and waits.
PromptName ==
    /\ pc = "L17"
    /\ stdout' = WritePrompt(stdout, NamePrompt)
    /\ name_reads' = name_reads + 1
    /\ pc' = "L17_read"
    /\ UNCHANGED <<user_name, greeting, text, number, result, exc,
                   prompt_on_stdout, number_reads, consumed, parses>>

\* Line 17, input() returns a line.
ReadName ==
    /\ pc = "L17_read"
    /\ \E s \in NameLines : user_name' = s
    /\ consumed' = consumed + 1
    /\ pc' = "L18"
    /\ UNCHANGED <<greeting, text, number, result, stdout, exc,
                   prompt_on_stdout, name_reads, number_reads, parses>>

\* Faulty variant: end of input is taken for an empty name.
ReadNameEOF_empty ==
    /\ pc = "L17_read"
    /\ user_name' = <<>>
    /\ pc' = "L18"
    /\ UNCHANGED <<greeting, text, number, result, stdout, exc,
                   prompt_on_stdout, name_reads, number_reads, consumed,
                   parses>>

\* Line 17, input() meets end of input: EOFError leaves main() uncaught.
ReadNameEOF ==
    /\ pc = "L17_read"
    /\ exc' = "EOFError"
    /\ pc' = "exit"
    /\ UNCHANGED <<user_name, greeting, text, number, result, stdout,
                   prompt_on_stdout, name_reads, number_reads, consumed,
                   parses>>

\* Line 18.
Greet ==
    /\ pc = "L18"
    /\ greeting' = greet(user_name)
    /\ pc' = "L19"
    /\ UNCHANGED <<user_name, text, number, result, stdout, exc,
                   prompt_on_stdout, name_reads, number_reads, consumed, parses>>

\* Faulty variant: the greeting is computed and not printed.
PrintGreeting_skip ==
    /\ pc = "L19"
    /\ pc' = "L22_input"
    /\ UNCHANGED <<user_name, greeting, text, number, result, stdout, exc,
                   prompt_on_stdout, name_reads, number_reads, consumed, parses>>

\* Line 19.
PrintGreeting ==
    /\ pc = "L19"
    /\ stdout' = print(stdout, greeting)
    /\ pc' = "L22_input"
    /\ UNCHANGED <<user_name, greeting, text, number, result, exc,
                   prompt_on_stdout, name_reads, number_reads, consumed, parses>>

\* Line 22, input() is called: it writes the prompt and waits.
PromptNumber ==
    /\ pc = "L22_input"
    /\ stdout' = WritePrompt(stdout, NumberPrompt)
    /\ number_reads' = number_reads + 1
    /\ pc' = "L22_read"
    /\ UNCHANGED <<user_name, greeting, text, number, result, exc,
                   prompt_on_stdout, name_reads, consumed, parses>>

\* Line 22, input() returns a line.
ReadNumber ==
    /\ pc = "L22_read"
    /\ \E s \in NumberLines : text' = s
    /\ consumed' = consumed + 1
    /\ pc' = "L22_int"
    /\ UNCHANGED <<user_name, greeting, number, result, stdout, exc,
                   prompt_on_stdout, name_reads, number_reads, parses>>

\* Faulty variant: end of input is taken for an empty line, handed to int().
ReadNumberEOF_empty ==
    /\ pc = "L22_read"
    /\ text' = <<>>
    /\ pc' = "L22_int"
    /\ UNCHANGED <<user_name, greeting, number, result, stdout, exc,
                   prompt_on_stdout, name_reads, number_reads, consumed,
                   parses>>

\* Line 22, input() meets end of input.
ReadNumberEOF ==
    /\ pc = "L22_read"
    /\ exc' = "EOFError"
    /\ pc' = "exit"
    /\ UNCHANGED <<user_name, greeting, text, number, result, stdout,
                   prompt_on_stdout, name_reads, number_reads, consumed,
                   parses>>

\* Line 22, int() returns.
ParseNumber ==
    /\ pc = "L22_int"
    /\ IntValid(text)
    /\ number' = IntValue(text)
    /\ parses' = parses + 1
    /\ pc' = "L23"
    /\ UNCHANGED <<user_name, greeting, text, result, stdout, exc,
                   prompt_on_stdout, name_reads, number_reads, consumed>>

\* Faulty variant: a line that does not parse counts as 0 and the run goes on.
ParseNumberError_default ==
    /\ pc = "L22_int"
    /\ ~IntValid(text)
    /\ parses' = parses + 1
    /\ number' = Zero
    /\ pc' = "L23"
    /\ UNCHANGED <<user_name, greeting, text, result, stdout, exc,
                   prompt_on_stdout, name_reads, number_reads, consumed>>

\* Faulty variant: a line that does not parse is asked for again (once, to keep the
\* variant finite).
ParseNumberError_retry ==
    /\ pc = "L22_int"
    /\ ~IntValid(text)
    /\ parses' = parses + 1
    /\ IF number_reads < 2
       THEN pc' = "L22_input" /\ exc' = exc
       ELSE pc' = "exit" /\ exc' = "ValueError"
    /\ UNCHANGED <<user_name, greeting, text, number, result, stdout,
                   prompt_on_stdout, name_reads, number_reads, consumed>>

\* Line 22, int() raises ValueError, which leaves main() uncaught.
ParseNumberError ==
    /\ pc = "L22_int"
    /\ ~IntValid(text)
    /\ parses' = parses + 1
    /\ exc' = "ValueError"
    /\ pc' = "exit"
    /\ UNCHANGED <<user_name, greeting, text, number, result, stdout,
                   prompt_on_stdout, name_reads, number_reads, consumed>>

\* Line 23.
ComputeSquare ==
    /\ pc = "L23"
    /\ result' = Square(number)
    /\ pc' = "L24"
    /\ UNCHANGED <<user_name, greeting, text, number, stdout, exc,
                   prompt_on_stdout, name_reads, number_reads, consumed, parses>>

\* Faulty variant: main() starts over after the square line (once, to keep the
\* variant finite).
PrintSquare_restart ==
    /\ pc = "L24"
    /\ SquareMessageOk(number, result)
    /\ stdout' = print(stdout, SquareMessage(number, result))
    /\ pc' = IF name_reads < 2 THEN "L17" ELSE "exit"
    /\ UNCHANGED <<user_name, greeting, text, number, result, exc,
                   prompt_on_stdout, name_reads, number_reads, consumed, parses>>

\* Line 24, then main() returns and the process ends.
PrintSquare ==
    /\ pc = "L24"
    /\ SquareMessageOk(number, result)
    /\ stdout' = print(stdout, SquareMessage(number, result))
    /\ pc' = "exit"
    /\ UNCHANGED <<user_name, greeting, text, number, result, exc,
                   prompt_on_stdout, name_reads, number_reads, consumed, parses>>

\* Line 24, the f-string raises ValueError: a field has too many digits to
\* convert.  Nothing is printed.
PrintSquareError ==
    /\ pc = "L24"
    /\ ~SquareMessageOk(number, result)
    /\ exc' = "ValueError"
    /\ pc' = "exit"
    /\ UNCHANGED <<user_name, greeting, text, number, result, stdout,
                   prompt_on_stdout, name_reads, number_reads, consumed, parses>>

Next ==
    \/ PromptName
    \/ ReadName
    \/ ReadNameEOF
    \/ Greet
    \/ PrintGreeting
    \/ PromptNumber
    \/ ReadNumber
    \/ ReadNumberEOF
    \/ ParseNumber
    \/ ParseNumberError
    \/ ComputeSquare
    \/ PrintSquare
    \/ PrintSquareError

Spec == Init /\ [][Next]_vars

\* The steps the interpreter takes by itself.
Runs ==
    \/ PromptName
    \/ Greet
    \/ PrintGreeting
    \/ PromptNumber
    \/ ParseNumber
    \/ ParseNumberError
    \/ ComputeSquare
    \/ PrintSquare
    \/ PrintSquareError

\* The steps that wait for the environment: a pending read returns.
Returns ==
    \/ ReadName
    \/ ReadNameEOF
    \/ ReadNumber
    \/ ReadNumberEOF

\* The interpreter always runs the next statement.  That a pending read
\* returns, with a line or with end of input, is an assumption on the
\* environment: the code waits for ever when neither comes.
FairSpec == Spec /\ WF_vars(Runs) /\ WF_vars(Returns)

----------------------------------------------------------------------------
(* Vocabulary of the properties.  The texts below are spelled out from the  *)
(* specification, independently of the definitions above.                   *)

ExpectedGreeting(s) ==
    <<"H","e","l","l","o",","," ">> \o s \o
    <<"!"," ","W","e","l","c","o","m","e"," ","t","o"," ","t","h","e"," ",
      "i","m","p","r","o","v","e","d"," ","c","o","d","e",".">>

TheSquareOf == <<"T","h","e"," ","s","q","u","a","r","e"," ","o","f"," ">>

\* A canonical decimal numeral: "0", or an optional "-" and digits that do
\* not start with "0".
NonZeroDigits == {"1","2","3","4","5","6","7","8","9"}

IsNatNumeral(s) ==
    /\ s # <<>>
    /\ \A i \in 1..Len(s) : s[i] \in NonZeroDigits \cup {"0"}
    /\ (Len(s) > 1 => s[1] # "0")

IsNumeral(s) ==
    \/ IsNatNumeral(s)
    \/ Len(s) > 1 /\ s[1] = "-" /\ IsNatNumeral(Tail(s)) /\ Tail(s) # <<"0">>

Ord(c) ==
    CASE c = "0" -> 0 [] c = "1" -> 1 [] c = "2" -> 2 [] c = "3" -> 3
      [] c = "4" -> 4 [] c = "5" -> 5 [] c = "6" -> 6 [] c = "7" -> 7
      [] c = "8" -> 8 [] c = "9" -> 9

RECURSIVE NatNumeralValue(_)
NatNumeralValue(s) ==
    IF Len(s) = 1 THEN Ord(s[1])
    ELSE 10 * NatNumeralValue(SubSeq(s, 1, Len(s) - 1)) + Ord(s[Len(s)])

NumeralValue(s) ==
    IF s[1] = "-" THEN 0 - NatNumeralValue(Tail(s)) ELSE NatNumeralValue(s)

\* The sum of the digits s[lo..hi] of a numeral.
RECURSIVE DigitSum(_, _, _)
DigitSum(s, lo, hi) ==
    IF lo > hi THEN 0
    ELSE IF lo = hi THEN (IF s[lo] = "-" THEN 0 ELSE Ord(s[lo]))
    ELSE DigitSum(s, lo, (lo + hi) \div 2) + DigitSum(s, ((lo + hi) \div 2) + 1, hi)

\* The integer an int of at most three limbs is.
SmallValue(n) ==
    LET m == n.mag
        v == CASE Len(m) = 0 -> 0
               [] Len(m) = 1 -> m[1]
               [] Len(m) = 2 -> m[1] + 1000 * m[2]
               [] Len(m) = 3 -> m[1] + 1000 * m[2] + 1000000 * m[3]
    IN  IF n.neg THEN 0 - v ELSE v

\* Numeral b shows the square of the integer numeral a shows: exactly, by
\* machine arithmetic, when a has at most four digits; by its sign, its
\* length and its residue modulo 9 at any length.
IsSquareOf(b, a) ==
    LET d == IF a[1] = "-" THEN Tail(a) ELSE a
    IN  /\ b[1] # "-"
        /\ (d = <<"0">> => b = <<"0">>)
        /\ (d # <<"0">> => Len(b) \in {2 * Len(d) - 1, 2 * Len(d)})
        /\ DigitSum(b, 1, Len(b)) % 9
             = ((DigitSum(d, 1, Len(d)) % 9) * (DigitSum(d, 1, Len(d)) % 9)) % 9
        /\ (Len(d) <= 4 => NumeralValue(b) = NumeralValue(d) * NumeralValue(d))

\* A write that print made: it ends with the newline.
IsLine(w) == w # <<>> /\ w[Len(w)] = NL

PrintedLines == SelectSeq(stdout, IsLine)

RECURSIVE Stream(_)
Stream(out) == IF out = <<>> THEN <<>> ELSE Head(out) \o Stream(Tail(out))

IsGreetingLine(w, s) == w = ExpectedGreeting(s) \o <<NL>>

IsSquareLine(w) == Len(w) >= 14 /\ SubSeq(w, 1, 14) = TheSquareOf

\* w is "The square of {a} is {b}" and a newline, a the numeral of the int
\* n and b the numeral of its square.
ShowsSquare(w, n) ==
    /\ IsLine(w)
    /\ IsSquareLine(w)
    /\ \E k \in 15..Len(w) :
         /\ k + 5 <= Len(w) - 1
         /\ SubSeq(w, k + 1, k + 4) = <<" ","i","s"," ">>
         /\ LET a == SubSeq(w, 15, k)
                b == SubSeq(w, k + 5, Len(w) - 1)
            IN  /\ IsNumeral(a)
                /\ IntValue(a) = n
                /\ (Len(a) <= 9 => NumeralValue(a) = SmallValue(n))
                /\ IsNumeral(b)
                /\ IsSquareOf(b, a)

Terminated == pc = "exit"

\* A read is pending: input() has written its prompt and waits.
ReadPending == pc \in {"L17_read", "L22_read"}

\* The first read met end of input; the second read did.
NameReadFailed == name_reads = 1 /\ consumed = 0 /\ ~ReadPending

NumberReadFailed == number_reads = 1 /\ consumed = 1 /\ ~ReadPending

ParseFailed == parses >= 1 /\ ~IntValid(text)

ParseSucceeded == parses = 1 /\ IntValid(text)

\* The numerals of the number and of its square are within the limit of
\* the conversion to str.
SquareFits == StrOk(number) /\ StrOk(result)

NoSquareLine == \A i \in 1..Len(stdout) : ~IsSquareLine(stdout[i])

HasLetter(s) == \E i \in 1..Len(s) : s[i] = "a"

----------------------------------------------------------------------------
\* C1: for every string s, the empty one included, greet(s) is exactly
\* "Hello, " + s + "! Welcome to the improved code.": once line 18 has run,
\* greeting is that text for the name that was read.
C1_GreetExact ==
    (consumed >= 1 /\ pc # "L18") => greeting = ExpectedGreeting(user_name)

C1_Witness ==
    /\ pc = "L19"
    /\ user_name = <<" ", "A">>
    /\ Len(greeting) = 40

\* C2: whenever the second line parses to an integer n, the square line is
\* written and is "The square of {n} is {n*n}", n the parsed integer and
\* n*n that integer multiplied by itself.
C2_SquareLineAlways ==
    (Terminated /\ ParseSucceeded) =>
        /\ stdout # <<>>
        /\ ShowsSquare(stdout[Len(stdout)], number)

\* C3 as stated: on a run with two successful reads and a successful parse,
\* standard output holds the greeting line and the square line and nothing
\* else.
C3_StdoutOnlyTwoLines ==
    (Terminated /\ consumed = 2 /\ ParseSucceeded) =>
        \E w \in {stdout[i] : i \in 1..Len(stdout)} :
            /\ ShowsSquare(w, number)
            /\ Stream(stdout) = ExpectedGreeting(user_name) \o <<NL>> \o w

\* C3 amended: on such a run print writes the greeting line and then the
\* square line, two newline-terminated lines and no other; when line 24
\* raises ValueError instead (the numeral of the number or of its square has
\* more than MaxStrDigits digits, see C2) the greeting line is the only line.
\* Standard output holds these lines in that order and, when input() prompts
\* on standard output, each read's prompt right before what follows the read.
C3_TwoLinesAfterPrompts ==
    (Terminated /\ consumed = 2 /\ ParseSucceeded) =>
        /\ PrintedLines # <<>>
        /\ IsGreetingLine(PrintedLines[1], user_name)
        /\ IF SquareFits
           THEN /\ exc = "none"
                /\ Len(PrintedLines) = 2
                /\ ShowsSquare(PrintedLines[2], number)
                /\ Stream(stdout) =
                     IF prompt_on_stdout
                     THEN NamePrompt \o PrintedLines[1]
                          \o NumberPrompt \o PrintedLines[2]
                     ELSE PrintedLines[1] \o PrintedLines[2]
           ELSE /\ exc = "ValueError"
                /\ Len(PrintedLines) = 1
                /\ Stream(stdout) =
                     IF prompt_on_stdout
                     THEN NamePrompt \o PrintedLines[1] \o NumberPrompt
                     ELSE PrintedLines[1]

C3_Witness ==
    /\ Terminated
    /\ exc = "none"
    /\ prompt_on_stdout
    /\ Len(stdout) = 4
    /\ user_name = <<"A", "d">>
    /\ text = <<"U+000B", "3">>
    /\ SmallValue(number) = 3

\* C4: when the second line cannot be parsed as a base-10 integer (a line
\* holding a letter, for one), main() ends with ValueError, the square line
\* is not printed, and nothing runs afterwards: no second ask.
C4_ParseErrorEnds ==
    (parses >= 1 /\ (HasLetter(text) \/ ~IntValid(text))) =>
        /\ Terminated
        /\ exc = "ValueError"
        /\ parses = 1
        /\ number_reads = 1
        /\ NoSquareLine
        /\ ~ENABLED Next

C4_Witness ==
    /\ Terminated
    /\ exc = "ValueError"
    /\ text = <<"a", "a", "a">>
    /\ Len(PrintedLines) = 1

\* C5: when input ends before the first line, main() ends with EOFError, no
\* line is printed (neither the greeting nor the square line) and the second
\* read is not attempted.
C5_EofAtName ==
    NameReadFailed =>
        /\ Terminated
        /\ exc = "EOFError"
        /\ PrintedLines = <<>>
        /\ \A i \in 1..Len(Stream(stdout)) : Stream(stdout)[i] # NL
        /\ number_reads = 0
        /\ parses = 0

C5_Witness ==
    /\ NameReadFailed
    /\ Terminated
    /\ prompt_on_stdout
    /\ stdout = <<NamePrompt>>

\* C6: when the first read succeeds and input ends before the second line,
\* main() ends with EOFError: the greeting line has been printed, the square
\* line is not, and int() is not called.
C6_EofAtNumber ==
    NumberReadFailed =>
        /\ Terminated
        /\ exc = "EOFError"
        /\ Len(PrintedLines) = 1
        /\ IsGreetingLine(PrintedLines[1], user_name)
        /\ parses = 0

C6_Witness ==
    /\ NumberReadFailed
    /\ Terminated
    /\ user_name = <<"A">>
    /\ Len(PrintedLines) = 1

\* The states of the specification's state machine.  Done is normal
\* completion; Failed is termination by an uncaught exception.
Phase ==
    CASE pc \in {"L17", "L17_read"} -> "AwaitingName"
      [] pc \in {"L18", "L19", "L22_input", "L22_read", "L22_int", "L23",
                 "L24"} -> "AwaitingNumber"
      [] pc = "exit" /\ exc = "none" -> "Done"
      [] pc = "exit" /\ exc # "none" -> "Failed"

\* C7 as stated: the only moves are AwaitingName -> AwaitingNumber -> Done,
\* with no branch.
C7_NoBranching ==
    [][Phase' # Phase =>
         <<Phase, Phase'>> \in {<<"AwaitingName", "AwaitingNumber">>,
                                <<"AwaitingNumber", "Done">>}]_vars

\* C7 amended: provided each blocking read eventually returns a line or
\* end of input, a run moves forward only, AwaitingName -> AwaitingNumber ->
\* Done, never back and never twice through a state.  It branches only to
\* the failure exits: from AwaitingName when the first read meets end of
\* input (EOFError); from AwaitingNumber when the second read meets end of
\* input (EOFError), when int() refuses the second line (ValueError, line
\* 22), or when line 24 raises ValueError because the numeral of the number
\* or of its square has more than MaxStrDigits digits (see C2).  Done is
\* reached only after a parse and the square line.  Every run reaches one
\* terminal state, Done or a failure exit, once, and stays there.
C7_ForwardOnly ==
    /\ [][Phase' # Phase =>
            <<Phase, Phase'>> \in {<<"AwaitingName", "AwaitingNumber">>,
                                   <<"AwaitingNumber", "Done">>,
                                   <<"AwaitingName", "Failed">>,
                                   <<"AwaitingNumber", "Failed">>}]_vars
    /\ [][(Phase = "AwaitingName" /\ Phase' = "Failed") =>
            (exc' = "EOFError" /\ NameReadFailed' /\ pc = "L17_read")]_vars
    /\ [][(Phase = "AwaitingNumber" /\ Phase' = "Failed") =>
            \/ exc' = "EOFError" /\ NumberReadFailed' /\ pc = "L22_read"
            \/ exc' = "ValueError" /\ ParseFailed' /\ pc = "L22_int"
            \/ /\ exc' = "ValueError"
               /\ ParseSucceeded' /\ ~SquareFits'
               /\ pc = "L24"]_vars
    /\ [][(Phase = "AwaitingNumber" /\ Phase' = "Done") =>
            /\ ParseSucceeded' /\ SquareFits'
            /\ stdout' # <<>>
            /\ ShowsSquare(stdout'[Len(stdout')], number)]_vars
    /\ [][(Phase \in {"Done", "Failed"}) => UNCHANGED vars]_vars
    /\ [][Phase' = "AwaitingNumber" => number_reads' <= 1]_vars
    /\ <>Terminated

C7_Witness ==
    /\ Phase = "Failed"
    /\ exc = "ValueError"
    /\ ParseSucceeded
    /\ ~SquareFits
    /\ text = <<"1">> \o Rep("0", 2150)

\* C8: no retries: each read is attempted at most once, at most two lines
\* are consumed, and after a failed read or a failed parse no read is
\* attempted and nothing is written.
C8_NoRetries ==
    /\ [](name_reads <= 1 /\ number_reads <= 1 /\ consumed <= 2 /\ parses <= 1)
    /\ [][(NameReadFailed \/ NumberReadFailed \/ ParseFailed) =>
            UNCHANGED <<stdout, name_reads, number_reads, consumed, parses>>]_vars

C8_Witness ==
    /\ ParseFailed
    /\ Terminated
    /\ consumed = 2
    /\ text = <<"3", "_">>

\* C9: a run that has ended ended in one of three outcomes: normal
\* completion after the square line, a parse error, or end of input.
C9_ThreeOutcomes ==
    Terminated =>
        \/ /\ exc = "none"
           /\ PrintedLines # <<>>
           /\ IsSquareLine(PrintedLines[Len(PrintedLines)])
        \/ exc = "ValueError" /\ ParseFailed /\ NoSquareLine
        \/ exc = "EOFError" /\ (NameReadFailed \/ NumberReadFailed) /\ NoSquareLine

\* C10: the greeting line is written before the second read is attempted and
\* depends only on the first line: once the first read has succeeded and the
\* run has passed line 19, the first line printed is the greeting of that
\* name, whatever the second line is (an integer, text that does not parse,
\* or end of input), and the square line never comes before it.
C10_GreetingFirst ==
    /\ (number_reads >= 1 \/ (Terminated /\ consumed >= 1)) =>
           /\ PrintedLines # <<>>
           /\ IsGreetingLine(PrintedLines[1], user_name)
    /\ \A i \in 1..Len(PrintedLines) :
           IsSquareLine(PrintedLines[i]) =>
               /\ i > 1
               /\ IsGreetingLine(PrintedLines[1], user_name)

C10_Witness ==
    /\ Terminated
    /\ exc = "ValueError"
    /\ user_name = <<"d">>
    /\ IsGreetingLine(PrintedLines[1], <<"d">>)

====
